---- MODULE Spec2Model ----
(***************************************************************************)
(* Model of azcc.py: the AzureClaudeCode application object (history,      *)
(* context, message assembly, streaming, interactive loop, export) and the *)
(* dispatch performed by main().  One behaviour is a sequence of process   *)
(* runs sharing the history file and the export destination file.          *)
(***************************************************************************)
EXTENDS Integers, Sequences, FiniteSets, TLC

\* ------------------------------------------------------------------ bounds
MaxTurns == 4      \* a request starts only while len(history) + len(session_history) is at most this
MaxChunks == 1     \* cap on content fragments of one reply
MaxN == 2          \* largest AZCC_MAX_HISTORY tried

\* ------------------------------------------------------- program constants
HistoryWindow == 3       \* self.history[-3:]
MaxContextFiles == 5     \* code_files[:5]
MaxFileChars == 1000     \* len(content) > 1000
ExplainMaxChars == 4000  \* len(code) > 4000

Min(a, b) == IF a < b THEN a ELSE b
Max(a, b) == IF a > b THEN a ELSE b

\* ------------------------------------------------------------------- text
\* A text is a sequence of tokens.  W(s) is the literal string s; Chars(f,n)
\* is the first n characters of file f.  String concatenation is \o.
W(s) == [kind |-> "w", s |-> s, n |-> 0]
Chars(f, n) == [kind |-> "chars", s |-> f, n |-> n]

\* Python None and a present value; Truthy is Python's `if x:` on Optional[str]
None == [ok |-> FALSE, text |-> <<>>]
Some(t) == [ok |-> TRUE, text |-> t]

Truthy_Always(v) == TRUE
Truthy(v) == v.ok /\ v.text # <<>>

\* s[-n:] with Python's slice semantics (n = 0 gives s[0:], the whole list)
NegSlice(s, n) ==
    LET start == IF n > 0 THEN Max(Len(s) - n, 0) ELSE Min(-n, Len(s))
    IN  SubSeq(s, start + 1, Len(s))

Turn(role, content) == [role |-> role, content |-> content]

\* ------------------------------------------------------------ file system
Paths == {"projA", "projB", "locked", "empty", "missing"}
NoArg == "-"

Exists(path) == path # "missing"

\* the code files under a path, in the order the eleven globs enumerate them
Glob(path) ==
    CASE path = "projA"  -> <<"a.py", "b.js">>
      [] path = "projB"  -> <<"m1.py", "m2.py", "m3.py", "m4.js", "m5.h", "m6.css">>
      [] path = "locked" -> <<"x.py">>
      [] OTHER           -> <<>>

Readable(f) == f \notin {"m2.py", "x.py", "gone.py"}

Size(f) ==
    CASE f = "a.py"   -> 1200
      [] f = "big.py" -> 5000
      [] f = "m3.py"  -> 1000
      [] OTHER        -> 10

ExplainFiles == {"a.py", "big.py", "gone.py"}

\* ---------------------------------------------------------------- set_context
FileEntry(f) ==
    <<W("File: "), W(f), W("<nl>[fence]<nl>")>>
    \o (IF Size(f) > MaxFileChars
        THEN <<Chars(f, MaxFileChars), W("...")>>
        ELSE <<Chars(f, Size(f))>>)
    \o <<W("<nl>[fence]")>>

RECURSIVE ContextContent(_)
\* context_content for a list of selected files: unreadable ones are skipped
ContextContent(files) ==
    IF files = <<>> THEN <<>>
    ELSE (IF Readable(Head(files)) THEN <<FileEntry(Head(files))>> ELSE <<>>)
         \o ContextContent(Tail(files))

RECURSIVE JoinEntries(_)
\* the join of context_content with a blank line
JoinEntries(entries) ==
    IF Len(entries) = 1 THEN entries[1]
    ELSE entries[1] \o <<W("<nl><nl>")>> \o JoinEntries(Tail(entries))

Digest(path) ==
    LET cc == ContextContent(SubSeq(Glob(path), 1, Min(MaxContextFiles, Len(Glob(path)))))
    IN  IF cc # <<>> THEN Some(JoinEntries(cc)) ELSE None

set_context(ctx, path) ==
    IF ~Exists(path) THEN ctx
    ELSE IF Digest(path).ok THEN Digest(path) ELSE ctx

\* ------------------------------------------------------- generate_response
Persona == <<W("You are AzureCC, a command-line AI assistant specialized in helping with code. ...")>>

SystemMessage_IgnoreContinue(ctx, cont) ==
    Turn("system",
         IF Truthy(ctx) THEN Persona \o <<W("<nl><nl>Project context:<nl>")>> \o ctx.text
         ELSE Persona)
SystemMessage(ctx, cont) ==
    Turn("system",
         IF Truthy(ctx) /\ ~cont
         THEN Persona \o <<W("<nl><nl>Project context:<nl>")>> \o ctx.text
         ELSE Persona)

HistoryTail_Whole(hist, cont) ==
    IF cont /\ hist # <<>> THEN hist ELSE <<>>
HistoryTail(hist, cont) ==
    IF cont /\ hist # <<>> THEN NegSlice(hist, HistoryWindow) ELSE <<>>

BuildMessages(prompt, cont, ctx, hist) ==
    <<SystemMessage(ctx, cont)>> \o HistoryTail(hist, cont) \o <<Turn("user", prompt)>>

\* ------------------------------------------------------------ _save_history
SaveSlice(hist, n) == NegSlice(hist, n)

\* ------------------------------------------------------------ export_history
\* json.dump(self.history, f, indent=2) as a token stream, and json.load back
P(c) == [t |-> c, v |-> <<>>]
S(text) == [t |-> "str", v |-> text]

DumpTurn(turn) ==
    <<P("{"), S(<<W("role")>>), P(":"), S(<<W(turn.role)>>), P(","),
      S(<<W("content")>>), P(":"), S(turn.content), P("}")>>

RECURSIVE DumpTurns(_)
DumpTurns(hist) ==
    IF hist = <<>> THEN <<>>
    ELSE IF Len(hist) = 1 THEN DumpTurn(hist[1])
    ELSE DumpTurn(hist[1]) \o <<P(",")>> \o DumpTurns(Tail(hist))

JsonDump(hist) == <<P("[")>> \o DumpTurns(hist) \o <<P("]")>>

RECURSIVE ParseTurns(_, _)
\* reads objects from position i of doc up to the closing bracket
ParseTurns(doc, i) ==
    IF doc[i].t = "]" THEN <<>>
    ELSE IF doc[i].t = "," THEN ParseTurns(doc, i + 1)
    ELSE <<Turn(doc[i + 3].v[1].s, doc[i + 7].v)>> \o ParseTurns(doc, i + 9)

JsonLoad(doc) == ParseTurns(doc, 2)

\* what the destination path may hold before a run: nothing, or an older document
StaleDoc == JsonDump(<<Turn("user", <<W("old")>>)>>)
DestBefore == {None, Some(StaleDoc)}

ExportDoc_Truncated(hist, n) == JsonDump(SaveSlice(hist, n))
ExportDoc(hist, n) == JsonDump(hist)

\* ------------------------------------------------------------------ inputs
Prompts == {<<W("p1")>>, <<W("p2")>>}
Frag == {W("a")}

RECURSIVE TextsUpTo(_)
TextsUpTo(n) ==
    IF n = 0 THEN {<<>>}
    ELSE LET shorter == TextsUpTo(n - 1)
         IN  shorter \cup {t \o <<f>> : t \in shorter, f \in Frag}

Replies == TextsUpTo(MaxChunks)

ExplainPrompt(f) ==
    <<W("Explain this code concisely:<nl>[fence]<nl>")>>
    \o (IF Size(f) > ExplainMaxChars
        THEN <<Chars(f, ExplainMaxChars), W("<nl>...<nl>(file truncated)")>>
        ELSE <<Chars(f, Size(f))>>)
    \o <<W("<nl>[fence]")>>

\* ------------------------------------------------------------------- state
VARIABLES
    pc,              \* "main" | "read" | "call" | "done" | "crashed"
    mode,            \* branch of main() taken by this run
    max_history,     \* config max_history
    file,            \* content of the history file (the pickled list)
    dest,            \* content of the export destination file
    history,         \* self.history
    context,         \* self.context
    session_history, \* local of interactive_mode
    messages,        \* local of generate_response
    req,             \* arguments of the generate_response call in progress
    full_response,   \* local of _stream_response
    response,        \* value returned by the last generate_response
    outcome,         \* what the last external interaction did
    loaded,          \* what _load_history returned in this run
    completed,       \* Turns of the exchanges of this run that got a reply
    lastExisting,    \* path of the last set_context call whose path exists
    saved            \* _save_history ran in this run

vars == <<pc, mode, max_history, file, dest, history, context, session_history,
          messages, req, full_response, response, outcome, loaded, completed,
          lastExisting, saved>>

NoReq == [caller |-> "none", prompt |-> <<>>, cont |-> FALSE, stream |-> FALSE]

\* __init__ on a first run: no history file yet
Init ==
    /\ pc = "main"
    /\ mode = "none"
    /\ max_history \in 0..MaxN
    /\ file = <<>>
    /\ dest \in DestBefore
    /\ history = <<>>
    /\ context = None
    /\ session_history = <<>>
    /\ messages = <<>>
    /\ req = NoReq
    /\ full_response = <<>>
    /\ response = None
    /\ outcome = "none"
    /\ loaded = <<>>
    /\ completed = <<>>
    /\ lastExisting = NoArg
    /\ saved = FALSE

\* _load_history: the file content, [] when the file is absent
_load_history(f) == f

\* `if args.context: app.set_context(args.context)`
ArgContext(ctxArg) ==
    /\ context' = IF ctxArg = NoArg THEN context ELSE set_context(context, ctxArg)
    /\ lastExisting' = IF ctxArg # NoArg /\ Exists(ctxArg) THEN ctxArg ELSE lastExisting

\* generate_response up to the call of the client
StartRequest(caller, prompt, cont, stream, ctx) ==
    /\ Len(history) + Len(session_history) <= MaxTurns
    /\ messages' = BuildMessages(prompt, cont, ctx, history)
    /\ req' = [caller |-> caller, prompt |-> prompt, cont |-> cont, stream |-> stream]
    /\ full_response' = <<>>
    /\ outcome' = "none"
    /\ pc' = "call"

Exchange(prompt, resp) == <<Turn("user", prompt), Turn("assistant", resp.text)>>

\* the code after the `while True` loop of interactive_mode
EndSession ==
    /\ pc' = "done"
    /\ IF session_history # <<>>
       THEN /\ history' = history \o session_history
            /\ file' = SaveSlice(history', max_history)
            /\ saved' = TRUE
       ELSE UNCHANGED <<history, file, saved>>

\* generate_response returns resp to its caller, which runs to its next wait
Return(resp, out) ==
    /\ response' = resp
    /\ outcome' = out
    /\ completed' = IF resp.ok /\ resp.text # <<>>
                    THEN completed \o Exchange(req.prompt, resp) ELSE completed
    /\ CASE req.caller = "interactive" ->
              /\ session_history' = IF Truthy(resp)
                                    THEN session_history \o Exchange(req.prompt, resp)
                                    ELSE session_history
              /\ pc' = "read"
              /\ UNCHANGED <<history, file, saved>>
         [] req.caller = "prompt" ->
              /\ pc' = "done"
              /\ IF Truthy(resp) /\ req.cont
                 THEN /\ history' = history \o Exchange(req.prompt, resp)
                      /\ file' = SaveSlice(history', max_history)
                      /\ saved' = TRUE
                 ELSE UNCHANGED <<history, file, saved>>
              /\ UNCHANGED session_history
         [] OTHER ->
              /\ pc' = "done"
              /\ UNCHANGED <<history, file, saved, session_history>>

\* ------------------------------------------------------------------ main()
MainExport(writable) ==
    /\ pc = "main"
    /\ pc' = "done"
    /\ mode' = "export"
    /\ IF history = <<>>
       THEN outcome' = "no_history" /\ UNCHANGED dest
       ELSE IF writable
            THEN outcome' = "written" /\ dest' = Some(ExportDoc(history, max_history))
            ELSE outcome' = "write_failed" /\ UNCHANGED dest
    /\ UNCHANGED <<max_history, file, history, context, session_history, messages,
                   req, full_response, response, loaded, completed, lastExisting, saved>>

MainInteractive(ctxArg) ==
    /\ pc = "main"
    /\ ArgContext(ctxArg)
    /\ pc' = "read"
    /\ mode' = "interactive"
    /\ session_history' = <<>>
    /\ UNCHANGED <<max_history, file, dest, history, messages, req, full_response,
                   response, outcome, loaded, completed, saved>>

MainExplain(ctxArg, f) ==
    /\ pc = "main"
    /\ ArgContext(ctxArg)
    /\ mode' = "explain"
    /\ IF Readable(f)
       THEN StartRequest("explain", ExplainPrompt(f), FALSE, TRUE, context')
       ELSE /\ pc' = "done"
            /\ outcome' = "error"
            /\ UNCHANGED <<messages, req, full_response>>
    /\ UNCHANGED <<max_history, file, dest, history, session_history, response,
                   loaded, completed, saved>>

MainPrompt(ctxArg, prompt, cont, stream) ==
    /\ pc = "main"
    /\ ArgContext(ctxArg)
    /\ mode' = "prompt"
    /\ StartRequest("prompt", prompt, cont, stream, context')
    /\ UNCHANGED <<max_history, file, dest, history, session_history, response,
                   loaded, completed, saved>>

MainNoCommand(ctxArg) ==
    /\ pc = "main"
    /\ ArgContext(ctxArg)
    /\ pc' = "done"
    /\ mode' = "nocmd"
    /\ UNCHANGED <<max_history, file, dest, history, session_history, messages, req,
                   full_response, response, outcome, loaded, completed, saved>>

\* -------------------------------------------------------- interactive_mode
InputExit ==
    /\ pc = "read"
    /\ EndSession
    /\ outcome' = "exit"
    /\ UNCHANGED <<mode, max_history, dest, context, session_history, messages, req,
                   full_response, response, loaded, completed, lastExisting>>

InputContext(path) ==
    /\ pc = "read"
    /\ ArgContext(path)
    /\ UNCHANGED <<pc, mode, max_history, file, dest, history, session_history,
                   messages, req, full_response, response, outcome, loaded,
                   completed, saved>>

InputPrompt(prompt) ==
    /\ pc = "read"
    /\ StartRequest("interactive", prompt, TRUE, TRUE, context)
    /\ UNCHANGED <<mode, max_history, file, dest, history, context, session_history,
                   response, loaded, completed, lastExisting, saved>>

\* except KeyboardInterrupt: break
KeyboardInterrupt_Uncaught ==
    /\ pc' = "crashed"
    /\ outcome' = "interrupt"
    /\ UNCHANGED <<history, file, saved>>
KeyboardInterrupt ==
    /\ EndSession
    /\ outcome' = "interrupt"

InterruptAtRead ==
    /\ pc = "read"
    /\ KeyboardInterrupt
    /\ UNCHANGED <<mode, max_history, dest, context, session_history, messages, req,
                   full_response, response, loaded, completed, lastExisting>>

\* input() raises EOFError, which interactive_mode does not catch
InputEOF ==
    /\ pc = "read"
    /\ pc' = "crashed"
    /\ outcome' = "eof"
    /\ UNCHANGED <<mode, max_history, file, dest, history, context, session_history,
                   messages, req, full_response, response, loaded, completed,
                   lastExisting, saved>>

\* ------------------------------------------------------ the completion client
frameCall == <<mode, max_history, dest, context, messages, req, loaded, lastExisting>>

\* non-streaming: response.choices[0].message.content is a string
ClientReturns(text) ==
    /\ pc = "call" /\ ~req.stream
    /\ Return(Some(text), "ok")
    /\ UNCHANGED full_response
    /\ UNCHANGED frameCall

\* non-streaming: message.content is None
ClientReturnsNoContent ==
    /\ pc = "call" /\ ~req.stream
    /\ Return(None, "no_content")
    /\ UNCHANGED full_response
    /\ UNCHANGED frameCall

\* non-streaming: create() raises; generate_response returns None
ClientFails ==
    /\ pc = "call" /\ ~req.stream
    /\ Return(None, "error")
    /\ UNCHANGED full_response
    /\ UNCHANGED frameCall

\* a chunk with content arrives (chunks without content change nothing)
StreamChunk(frag) ==
    /\ pc = "call" /\ req.stream
    /\ Len(full_response) < MaxChunks
    /\ full_response' = full_response \o <<frag>>
    /\ UNCHANGED <<pc, mode, max_history, file, dest, history, context,
                   session_history, messages, req, response, outcome, loaded,
                   completed, lastExisting, saved>>

\* the stream is exhausted: return full_response
StreamEnd ==
    /\ pc = "call" /\ req.stream
    /\ Return(Some(full_response), "ok")
    /\ UNCHANGED full_response
    /\ UNCHANGED frameCall

\* the except clause of _stream_response
StreamResult(partial) == None

\* create() or the iteration raises
StreamError ==
    /\ pc = "call" /\ req.stream
    /\ Return(StreamResult(full_response), "error")
    /\ UNCHANGED full_response
    /\ UNCHANGED frameCall

\* Ctrl-C while the request is in progress: caught by the interactive loop,
\* uncaught elsewhere
InterruptInCall ==
    /\ pc = "call"
    /\ IF req.caller = "interactive"
       THEN KeyboardInterrupt
       ELSE /\ pc' = "crashed"
            /\ outcome' = "interrupt"
            /\ UNCHANGED <<history, file, saved>>
    /\ UNCHANGED <<session_history, full_response, response, completed>>
    /\ UNCHANGED frameCall

\* ------------------------------------------------------------ next process
Restart(n, d) ==
    /\ pc \in {"done", "crashed"}
    /\ pc' = "main"
    /\ mode' = "none"
    /\ max_history' = n
    /\ history' = _load_history(file)
    /\ loaded' = _load_history(file)
    /\ context' = None
    /\ session_history' = <<>>
    /\ messages' = <<>>
    /\ req' = NoReq
    /\ full_response' = <<>>
    /\ response' = None
    /\ outcome' = "none"
    /\ completed' = <<>>
    /\ lastExisting' = NoArg
    /\ saved' = FALSE
    /\ dest' = d
    /\ UNCHANGED file

CtxArgs == Paths \cup {NoArg}

Next ==
    \/ \E w \in BOOLEAN : MainExport(w)
    \/ \E c \in CtxArgs : MainInteractive(c)
    \/ \E c \in CtxArgs, f \in ExplainFiles : MainExplain(c, f)
    \/ \E c \in CtxArgs, p \in Prompts, cont \in BOOLEAN, s \in BOOLEAN :
          MainPrompt(c, p, cont, s)
    \/ \E c \in CtxArgs : MainNoCommand(c)
    \/ InputExit
    \/ \E path \in Paths : InputContext(path)
    \/ \E p \in Prompts : InputPrompt(p)
    \/ InterruptAtRead
    \/ InputEOF
    \/ \E t \in Replies : ClientReturns(t)
    \/ ClientReturnsNoContent
    \/ ClientFails
    \/ \E f \in Frag : StreamChunk(f)
    \/ StreamEnd
    \/ StreamError
    \/ InterruptInCall
    \/ \E n \in 0..MaxN, d \in DestBefore : Restart(n, d)

Spec == Init /\ [][Next]_vars

TypeOK ==
    /\ pc \in {"main", "read", "call", "done", "crashed"}
    /\ max_history \in 0..MaxN
    /\ Len(history) <= MaxTurns + 2
    /\ Len(file) <= Len(history) \/ pc = "main"

\* ------------------------------------------------------------- properties
\* sub occurs in t as a contiguous run of tokens
Contains(t, sub) ==
    \E i \in 0..(Len(t) - Len(sub)) : SubSeq(t, i + 1, i + Len(sub)) = sub

\* s is the last Len(s) elements of t, in order
IsSuffix(s, t) ==
    /\ Len(s) <= Len(t)
    /\ \A j \in 1..Len(s) : s[j] = t[Len(t) - Len(s) + j]

C2_PersistedAtMostN ==
    saved =>
        /\ Len(file) <= max_history
        /\ Len(file) = Min(max_history, Len(history))
        /\ IsSuffix(file, history)

\* C3: when a stream fails after at least one fragment, the fragments received
\* so far are the returned response and are recorded as the assistant Turn.
C3_PartialKept ==
    (pc # "call" /\ req.stream /\ outcome = "error" /\ full_response # <<>>) =>
        /\ response = Some(full_response)
        /\ req.caller = "interactive" =>
              /\ session_history # <<>>
              /\ session_history[Len(session_history)] = Turn("assistant", full_response)

\* C4: when a command or session has ended, every request of the run that got
\* a reply has its user and assistant Turn in the history, and the history
\* has been saved.
C4_EveryReplyRecorded ==
    (pc = "done" /\ completed # <<>>) =>
        /\ history = loaded \o completed
        /\ saved
        /\ IsSuffix(file, history)

\* C5: a request for which generate_response returns None changes neither
\* the in-memory history, nor the session history, nor the history file; the
\* interactive loop then reads the next command, the other paths end.
C5_FailedRequestNoRecord ==
    [][(pc = "call" /\ pc' # "call" /\ outcome' # "interrupt" /\ response' = None) =>
          /\ history' = history
          /\ session_history' = session_history
          /\ file' = file
          /\ saved' = saved
          /\ pc' = IF req.caller = "interactive" THEN "read" ELSE "done"]_vars

C5_Witness ==
    /\ pc = "read"
    /\ outcome = "error"
    /\ response = None
    /\ full_response # <<>>
    /\ session_history # <<>>

\* C6: the context is the digest of the most recent set_context path that
\* exists (None when that path has no readable code file), and None when
\* there was no such call.
C6_ContextFromLastExisting ==
    context = IF lastExisting = NoArg THEN None ELSE Digest(lastExisting)

\* C7: after an interrupt in interactive mode the session has ended normally,
\* the history is the loaded history followed by every exchange of the
\* session that got a non-empty reply, and if there is any such exchange the
\* history was saved: the file is a suffix of the history holding at least
\* its last max_history Turns.  Without an exchange the file is untouched.
C7_InterruptPersists ==
    (mode = "interactive" /\ outcome = "interrupt") =>
        /\ pc = "done"
        /\ history = loaded \o completed
        /\ completed # <<>> =>
              /\ saved
              /\ IsSuffix(file, history)
              /\ Len(file) >= Min(max_history, Len(history))
        /\ completed = <<>> => file = loaded

C7_Witness ==
    /\ mode = "interactive"
    /\ outcome = "interrupt"
    /\ Len(completed) = 4
    /\ loaded # <<>>
    /\ Len(file) < Len(history)

\* C8 as stated: after export_history (unless the write failed) the
\* destination file parses back to the in-memory history, for every history.
C8_ExportRoundTripAll ==
    (pc = "done" /\ mode = "export" /\ outcome # "write_failed") =>
        /\ dest.ok
        /\ JsonLoad(dest.text) = history

\* C8 amended: export_history changes neither the in-memory history nor the
\* history file; with a non-empty history it writes the destination unless
\* the write fails, and the written file parses back to the full in-memory
\* history; with an empty history it leaves the destination as it was.
C8_ExportRoundTrip ==
    [][(pc = "main" /\ mode' = "export") =>
          /\ history' = history
          /\ file' = file
          /\ history = <<>> => dest' = dest
          /\ history # <<>> => outcome' \in {"written", "write_failed"}
          /\ outcome' = "written" =>
                /\ history # <<>>
                /\ dest'.ok
                /\ JsonLoad(dest'.text) = history]_vars

C8_Witness ==
    /\ pc = "done"
    /\ mode = "export"
    /\ outcome = "written"
    /\ max_history > 0
    /\ Len(history) > max_history

\* C9: every request sent from the interactive loop is a continued one and
\* its system Turn is the bare persona: the context occurs in no Turn of it.
C9_InteractiveNoContext ==
    (pc = "call" /\ req.caller = "interactive") =>
        /\ req.cont
        /\ messages[1] = Turn("system", Persona)
        /\ context.ok =>
              \A j \in 1..Len(messages) : ~Contains(messages[j].content, context.text)

C9_Witness ==
    /\ pc = "call"
    /\ req.caller = "interactive"
    /\ context.ok
    /\ lastExisting = "projB"
    /\ session_history # <<>>

\* C10: the Turns sent after the system Turn of an interactive request are
\* the 3 most recent Turns of the conversation so far, the exchanges of this
\* session included.
C10_WindowIncludesSession ==
    (pc = "call" /\ req.caller = "interactive") =>
        LET conv == history \o session_history
            k == Min(3, Len(conv))
        IN  /\ Len(messages) = k + 2
            /\ \A j \in 1..k : messages[1 + j] = conv[Len(conv) - k + j]
====
